---------------------------- MODULE Spec2Model ----------------------------
(***************************************************************************)
(* SFTPStorage (storages/backends/sftpstorage.py): the lazy SSH/SFTP       *)
(* session of one adapter, its storage operations on the remote file       *)
(* system, and the buffered file handle SFTPStorageFile.                   *)
(*                                                                         *)
(* Remote paths are sequences of components; an absolute path starts with  *)
(* the component "/", so "/r/d/a" is <<"/", "r", "d", "a">>, "/" is        *)
(* <<"/">> and the empty path "" is << >>.  Byte strings are sequences of  *)
(* small naturals.                                                         *)
(***************************************************************************)
EXTENDS Integers, Sequences, FiniteSets, TLC

VARIABLES
    cfg,        \* the adapter's settings (class attributes overridden in __init__)
    params,     \* SFTPStorage.params: the keyword arguments of SSHClient.connect
    sftp,       \* self._sftp: the cached channel, NoSession while the attribute is absent
    opened,     \* how many channels open_sftp() has returned to this adapter
    hostkeys,   \* environment: can the known-hosts file be read
    link,       \* environment: "up", or the exception class every call on a dead channel raises
    fs,         \* environment: the remote file system, path -> node
    handle,     \* the SFTPStorageFile in use, NoHandle when none is open
    last,       \* the operation that completed last: what it was given, returned and raised
    prev,       \* history: the _save or delete right before last, if it returned
    saved,      \* history: the logical names _save has been called with
    pre,        \* history: the remote paths that existed before the adapter was built
    calls,      \* history: the calls the last operation issued to change the remote host
    listed      \* history: what listdir was answered and returned, if last is a listdir

vars == <<cfg, params, sftp, opened, hostkeys, link, fs, handle, last, prev, saved, pre,
          calls, listed>>

----------------------------------------------------------------------------
(* Bounds *)

\* connect outcomes the environment has ready for one session access
MaxAttempts == 3
\* frames _mkdir may stack before the interpreter raises its recursion error
MaxDepth == 5

----------------------------------------------------------------------------
(* Values *)

\* Python's None, for a setting or attribute that holds a number otherwise
None == -1
NoSession == None
NoHandle == [open |-> FALSE]

\* exceptions, by class name; IOError is the base of socket.error
NoErr == "ok"
IOErrors == {"IOError", "SocketError"}
ConnOutcomes == {"ok", "AuthenticationException", "SocketError", "SSHException"}
LinkStates == {"up", "SocketError", "SSHException"}

Contents == {<<1>>, <<2, 1>>}

\* logical names: "d" and "d/a"
Names == {<<"d">>, <<"d", "a">>}

\* logical names below the directory d: "d/a" and "d/sub/a"
DeepNames == {<<"d", "a">>, <<"d", "sub", "a">>}

\* names that fill the directory d with two files and a directory
ListNames == DeepNames \cup {<<"d", "b">>}

\* open modes: 'rb', 'wb', 'r+b'
Modes == {<<"r", "b">>, <<"w", "b">>, <<"r", "+", "b">>}

\* what the server gives a node it creates for the logged-in user
Server == [uid |-> 1000, gid |-> 1000, file_mode |-> 420, dir_mode |-> 493]

Front(s) == SubSeq(s, 1, Len(s) - 1)

----------------------------------------------------------------------------
(* Paths: posixpath *)

IsAbs(p) == p # << >> /\ p[1] = "/"

\* posixpath.join(a, b): an absolute b discards a
_join(a, b) == IF IsAbs(b) THEN b ELSE a \o b

\* posixpath.dirname(p): everything before the last separator; "/" for "/"
dirname(p) ==
    IF p = <<"/">> THEN p
    ELSE IF p = << >> THEN p
    ELSE Front(p)

_remote_path(name) == _join(cfg.root_path, name)

\* the directories above the remote path p
Above(p) == { SubSeq(p, 1, i) : i \in 1..Len(p) - 1 }

----------------------------------------------------------------------------
(* Connection: SFTPStorage._connect and the sftp property *)

\* no statistics: the operation did not run _connect
NoConn ==
    [ran |-> FALSE, outcomes |-> << >>, loads |-> 0, policies |-> 0,
     prompts |-> 0, printed |-> 0, opens |-> 0, had_sftp |-> FALSE,
     had_password |-> FALSE, had_username |-> FALSE]

\* line 143: hasattr(self, '_sftp')
HasSftp(sf) == sf # NoSession

\* the guard of line 137 left out
Unopened_NoGuard(st) == TRUE

\* line 137: not hasattr(self, '_sftp')
Unopened(st) == ~HasSftp(st.sftp)

\* line 124 without its test for a password
WantsPrompt_Always(p) == cfg.interactive

\* line 124: interactive and 'password' not in self.params
WantsPrompt(p) == cfg.interactive /\ "password" \notin DOMAIN p

\* lines 128-130: fill in the username if absent, then the prompted password
Prompted(p) ==
    LET u == IF "username" \in DOMAIN p THEN p["username"] ELSE "getuser"
    IN  [k \in DOMAIN p \cup {"username", "password"} |->
            IF k = "username" THEN u
            ELSE IF k = "password" THEN "getpass"
            ELSE p[k]]

\* lines 110-119 of one _connect frame: a new client in self._ssh (its
\* transport is None), the host keys loaded, the policy set
Entered(st, loaded) ==
    [st EXCEPT !.ssh = "new", !.loads = @ + 1,
               !.policies = IF loaded THEN @ + 1 ELSE @]

\* line 122: what self._ssh.connect leaves in self._ssh when it ends with how
Connected(st, how) ==
    [st EXCEPT !.outcomes = Append(@, how),
               !.ssh = CASE how = "ok" -> "authenticated"
                         [] how = "SocketError" -> "new"
                         [] OTHER -> "inactive"]

\* lines 134-135: except Exception as e: print(e)
Swallowed(st) == [st EXCEPT !.printed = @ + 1]

\* lines 137-138: self._ssh.open_sftp() needs an authenticated transport; it
\* raises AttributeError on a client that has no transport at all
OpenSftp(st, open_ok) ==
    IF ~Unopened(st) THEN st
    ELSE IF st.ssh = "authenticated" /\ open_ok
         THEN [st EXCEPT !.sftp = st.opened + 1, !.opened = @ + 1, !.opens = @ + 1]
         ELSE [st EXCEPT !.opens = @ + 1,
                         !.err = IF st.ssh = "new" THEN "AttributeError"
                                 ELSE "SSHException"]

\* line 133 handled as lines 134-135 handle the other failures
AuthFailed_Printed(st) == OpenSftp(Swallowed(st), TRUE)

\* line 133: raise paramiko.AuthenticationException(e)
AuthFailed(st) == [st EXCEPT !.err = "AuthenticationException"]

\* _connect: st is the adapter (params, _sftp, _ssh) with the statistics of
\* this session access, env the outcomes of the connect calls still to come,
\* open_ok whether open_sftp() on an authenticated transport succeeds.
RECURSIVE _connect(_, _, _)
_connect(st, env, open_ok) ==
    IF ~hostkeys
    THEN [Entered(st, FALSE) EXCEPT !.err = "IOError"]
    ELSE IF env = << >>
    THEN [Entered(st, TRUE) EXCEPT !.err = "RecursionError"]
    ELSE
      LET how == Head(env)
          s1  == Connected(Entered(st, TRUE), how)
      IN  CASE how = "ok" -> OpenSftp(s1, open_ok)
            [] how = "AuthenticationException" ->
                 IF WantsPrompt(s1.params)
                 THEN LET s2 == [s1 EXCEPT !.params = Prompted(@), !.prompts = @ + 1]
                          in == _connect(s2, Tail(env), open_ok)
                      IN  IF in.err # NoErr THEN in
                          ELSE OpenSftp(in, open_ok)
                 ELSE AuthFailed(s1)
            [] OTHER -> OpenSftp(Swallowed(s1), open_ok)

\* the outcomes of the connect calls of one session access: connect is called
\* again only after an authentication failure, so a later outcome is chosen
\* only behind one
Envs ==
    { env \in [1..MaxAttempts -> ConnOutcomes] :
        \A i \in 1..(MaxAttempts - 1) :
            env[i] # "AuthenticationException" => env[i + 1] = "ok" }

\* the adapter as an operation finds it
Idle ==
    [params |-> params, sftp |-> sftp, opened |-> opened, err |-> NoErr,
     ran |-> FALSE, outcomes |-> << >>, loads |-> 0, policies |-> 0,
     prompts |-> 0, printed |-> 0, opens |-> 0, ssh |-> "new",
     had_sftp |-> HasSftp(sftp),
     had_password |-> "password" \in DOMAIN params,
     had_username |-> "username" \in DOMAIN params]

\* the sftp property: the adapter after the access, with what the access raised
Sftp(env, open_ok) ==
    IF HasSftp(sftp) THEN Idle
    ELSE _connect([Idle EXCEPT !.ran = TRUE], env, open_ok)

\* what a call on the channel raises before it reaches the remote file system
CallErr(st) ==
    IF st.err # NoErr THEN st.err
    ELSE IF link # "up" THEN link
    ELSE NoErr

ConnOf(st) ==
    [ran |-> st.ran, outcomes |-> st.outcomes, loads |-> st.loads,
     policies |-> st.policies, prompts |-> st.prompts, printed |-> st.printed,
     opens |-> st.opens, had_sftp |-> st.had_sftp,
     had_password |-> st.had_password,
     had_username |-> st.had_username]

----------------------------------------------------------------------------
(* The remote file system, as the SFTP server answers the channel's calls.  *)
(* Each call returns [fs, err]: the file system after it and what it raised *)

Ok(f) == [fs |-> f, err |-> NoErr]
Raise(f, e) == [fs |-> f, err |-> e]

IsDir(f, p) == p \in DOMAIN f /\ f[p].kind = "dir"
IsFile(f, p) == p \in DOMAIN f /\ f[p].kind = "file"

\* the server lets the login user through to p: no directory above p is
\* closed to him (a directory without any permission bit is); where it does
\* not, every call on p fails with permission denied, an IOError
Reach(f, p) == \A q \in Above(p) : q \in DOMAIN f => f[q].mode # 0

Put(f, p, node) == [q \in DOMAIN f \cup {p} |-> IF q = p THEN node ELSE f[q]]

\* a call that changes the remote host, as it is issued on the file system f:
\* what it is given, whether its path is there and its parent is a directory,
\* and the owner and group its path has at that moment
Call(f, call, path, mode, uid, gid) ==
    [call |-> call, path |-> path, mode |-> mode, uid |-> uid, gid |-> gid,
     parent |-> IsDir(f, dirname(path)), there |-> path \in DOMAIN f,
     st_uid |-> IF path \in DOMAIN f THEN f[path].uid ELSE None,
     st_gid |-> IF path \in DOMAIN f THEN f[path].gid ELSE None]

\* the result r, reached by the calls
Only(cs, r) == [fs |-> r.fs, err |-> r.err, calls |-> cs]

\* the result r of the call c, issued after the calls cs
Then(cs, c, r) == Only(Append(cs, c), r)

\* sftp.stat(path) returns
sftp_stat(f, p) == p \in DOMAIN f /\ Reach(f, p)

\* sftp.mkdir(path)
sftp_mkdir(f, p) ==
    IF p \in DOMAIN f \/ ~IsDir(f, dirname(p)) \/ ~Reach(f, p) THEN Raise(f, "IOError")
    ELSE Ok(Put(f, p, [kind |-> "dir", data |-> << >>, mode |-> Server.dir_mode,
                       uid |-> Server.uid, gid |-> Server.gid]))

\* sftp.open(path, 'wb') ; f.write(data) ; f.close(): create or truncate, then write
sftp_write(f, p, data) ==
    IF IsDir(f, p) \/ ~IsDir(f, dirname(p)) \/ ~Reach(f, p) THEN Raise(f, "IOError")
    ELSE IF p \in DOMAIN f THEN Ok([f EXCEPT ![p].data = data])
    ELSE Ok(Put(f, p, [kind |-> "file", data |-> data, mode |-> Server.file_mode,
                       uid |-> Server.uid, gid |-> Server.gid]))

\* sftp.remove(path)
sftp_remove(f, p) ==
    IF ~IsFile(f, p) \/ ~Reach(f, p) THEN Raise(f, "IOError")
    ELSE Ok([q \in DOMAIN f \ {p} |-> f[q]])

\* sftp.chmod(path, mode)
sftp_chmod(f, p, mode) ==
    IF p \notin DOMAIN f \/ ~Reach(f, p) THEN Raise(f, "IOError")
    ELSE Ok([f EXCEPT ![p].mode = mode])

\* sftp.chown(path, uid, gid)
sftp_chown(f, p, uid, gid) ==
    IF p \notin DOMAIN f \/ ~Reach(f, p) THEN Raise(f, "IOError")
    ELSE Ok([f EXCEPT ![p].uid = uid, ![p].gid = gid])

----------------------------------------------------------------------------
(* Storage operations, given e: what calls on the channel raise (CallErr)  *)

\* Python's truth value of a uid, gid: None and 0 are false
Truthy(x) == x # None /\ x # 0

\* x or y
OrElse(x, y) == IF Truthy(x) THEN x ELSE y

\* line 215 returning True
exists_TrueOnError(f, e, name) ==
    IF e \in IOErrors THEN [ret |-> TRUE, err |-> NoErr]
    ELSE IF e # NoErr THEN [ret |-> FALSE, err |-> e]
    ELSE [ret |-> sftp_stat(f, _remote_path(name)), err |-> NoErr]

\* exists: [ret, err]
exists(f, e, name) ==
    IF e \in IOErrors THEN [ret |-> FALSE, err |-> NoErr]
    ELSE IF e # NoErr THEN [ret |-> FALSE, err |-> e]
    ELSE [ret |-> sftp_stat(f, _remote_path(name)), err |-> NoErr]

\* _chown(path, uid, gid): [fs, err, calls]
_chown(f, e, path, uid, gid) ==
    IF e # NoErr THEN Only(<< >>, Raise(f, e))
    ELSE IF uid = None \/ gid = None
         THEN IF ~sftp_stat(f, path) THEN Only(<< >>, Raise(f, "IOError"))
              ELSE LET u == OrElse(uid, f[path].uid)
                       g == OrElse(gid, f[path].gid)
                   IN  Then(<< >>, Call(f, "chown", path, None, u, g),
                            sftp_chown(f, path, u, g))
         ELSE Then(<< >>, Call(f, "chown", path, None, uid, gid),
                   sftp_chown(f, path, uid, gid))

\* lines 179-183 and 197-201: the mode, then the owner, of a node just made
Dress(r, e, path, mode) ==
    IF r.err # NoErr THEN r
    ELSE LET m == IF mode # None
                  THEN Then(r.calls, Call(r.fs, "chmod", path, mode, None, None),
                            sftp_chmod(r.fs, path, mode))
                  ELSE r
         IN  IF m.err # NoErr THEN m
             ELSE IF Truthy(cfg.uid) \/ Truthy(cfg.gid)
                  THEN LET o == _chown(m.fs, e, path, cfg.uid, cfg.gid)
                       IN  Only(m.calls \o o.calls, o)
                  ELSE m

\* _mkdir(path): [fs, err, calls]; fuel is the recursion depth left
RECURSIVE _mkdir(_, _, _, _)
_mkdir(f, e, path, fuel) ==
    IF fuel = 0 THEN Only(<< >>, Raise(f, "RecursionError"))
    ELSE
      LET parent == dirname(path)
          ex == exists(f, e, parent)
      IN  IF ex.err # NoErr THEN Only(<< >>, Raise(f, ex.err))
          ELSE LET up == IF ~ex.ret THEN _mkdir(f, e, parent, fuel - 1)
                         ELSE Only(<< >>, Ok(f))
               IN  IF up.err # NoErr THEN up
                   ELSE IF e # NoErr THEN Only(up.calls, Raise(up.fs, e))
                   ELSE Dress(Then(up.calls,
                                   Call(up.fs, "mkdir", path, None, None, None),
                                   sftp_mkdir(up.fs, path)),
                              e, path, cfg.dir_mode)

\* content.open() left out: the File stays where its reader left it
Reopened_NoSeek(content) == content

\* content.open() on an open File: seek(0)
Reopened(content) == [content EXCEPT !.pos = 0]

\* content.file.read(): the bytes from the position to the end
ReadAll(content) == SubSeq(content.data, content.pos + 1, Len(content.data))

\* line 187, content.open(): a File has the method, a byte string has not
Opens(content) == content.kind = "File"

\* _save(name, content): [fs, err, calls]
_save(f, e, name, content) ==
    IF ~Opens(content) THEN Only(<< >>, Raise(f, "AttributeError"))
    ELSE
      LET path == _remote_path(name)
          ex == exists(f, e, dirname(path))
      IN  IF ex.err # NoErr THEN Only(<< >>, Raise(f, ex.err))
          ELSE LET d == IF ~ex.ret THEN _mkdir(f, e, dirname(path), MaxDepth)
                        ELSE Only(<< >>, Ok(f))
               IN  IF d.err # NoErr THEN d
                   ELSE IF e # NoErr THEN Only(d.calls, Raise(d.fs, e))
                   ELSE Dress(Then(d.calls,
                                   Call(d.fs, "write", path, None, None, None),
                                   sftp_write(d.fs, path, ReadAll(Reopened(content)))),
                              e, path, cfg.file_mode)

\* stat.S_IFDIR, stat.S_IFREG: the file type bits of st_mode
S_IFDIR == 16384
S_IFREG == 32768

\* stat.S_IFMT(mode): mode & 0o170000
S_IFMT(mode) == ((mode \div 4096) % 16) * 4096

\* _isdir_attr with an entry that carries no mode taken for a directory
_isdir_attr_BareIsDir(item) ==
    IF item.st_mode # None THEN S_IFMT(item.st_mode) = S_IFDIR ELSE TRUE

\* _isdir_attr(item)
_isdir_attr(item) ==
    IF item.st_mode # None THEN S_IFMT(item.st_mode) = S_IFDIR ELSE FALSE

_isfile_attr(item) == ~_isdir_attr(item)

Filenames(items) == [i \in 1..Len(items) |-> items[i].filename]

\* listdir, given what sftp.listdir_attr returned: each entry is appended to
\* dirs or to files as the loop meets it
listdir(items) ==
    [items |-> items,
     dirs |-> Filenames(SelectSeq(items, _isdir_attr)),
     files |-> Filenames(SelectSeq(items, _isfile_attr))]

\* the entries of the directory p
Children(f, p) == { q \in DOMAIN f : Len(q) = Len(p) + 1 /\ Front(q) = p }

\* the attributes the server sends for the node q: its name, and its type
\* and permission bits unless the server leaves them out
Attr(f, q, bare) ==
    [filename |-> q[Len(q)],
     st_mode |-> IF bare THEN None
                 ELSE (IF f[q].kind = "dir" THEN S_IFDIR ELSE S_IFREG) + f[q].mode]

\* sftp.listdir_attr(p): the entries in any order the server pleases, any of
\* them without the permission attribute
Listings(f, p) ==
    LET cs == Children(f, p)
        n  == Cardinality(cs)
    IN  { [i \in 1..n |-> Attr(f, o[i], i \in bare)] :
            o \in { s \in [1..n -> cs] : \A i, j \in 1..n : s[i] = s[j] => i = j },
            bare \in SUBSET (1..n) }

NoListing == [items |-> << >>, dirs |-> << >>, files |-> << >>]

\* _read(name): the bytes the returned remote stream yields
_read(f, e, name) ==
    IF e # NoErr THEN [ret |-> << >>, err |-> e]
    ELSE IF ~IsFile(f, _remote_path(name)) \/ ~Reach(f, _remote_path(name))
         THEN [ret |-> << >>, err |-> "IOError"]
    ELSE [ret |-> f[_remote_path(name)].data, err |-> NoErr]

\* delete(name)
delete(f, e, name) ==
    IF e # NoErr THEN Raise(f, e)
    ELSE sftp_remove(f, _remote_path(name))

----------------------------------------------------------------------------
(* Initial states *)

Setting(interactive, file_mode, dir_mode, uid, gid) ==
    [host |-> "h", root_path |-> <<"/", "r">>, interactive |-> interactive,
     known_host_file |-> None, file_mode |-> file_mode, dir_mode |-> dir_mode,
     uid |-> uid, gid |-> gid]

\* nothing optional configured
Plain(interactive) == Setting(interactive, None, None, None, None)

\* settings of the storage runs: plain, or modes and an owning user
Configs == {Plain(FALSE), Setting(FALSE, 384, 448, 5, None)}

\* settings of the directory runs: plain; modes and an owning user; a
\* directory mode and an owning group; the super-user as owner, alone and
\* with a group
DirConfigs ==
    {Plain(FALSE), Setting(FALSE, 384, 448, 5, None), Setting(FALSE, None, 448, None, 7),
     Setting(FALSE, 384, None, 0, None), Setting(FALSE, None, None, 0, 7)}

InitParams ==
    { [k \in ks |-> "settings"] : ks \in SUBSET {"username", "password"} }

Dir == [kind |-> "dir", data |-> << >>, mode |-> Server.dir_mode,
        uid |-> 0, gid |-> 0]

Tree(paths) == [p \in paths |-> Dir]

\* a directory of another user, closed to everybody
Sealed == [Dir EXCEPT !.mode = 0]

\* a file another user left
Left(data) == [kind |-> "file", data |-> data, mode |-> Server.file_mode,
               uid |-> 0, gid |-> 0]

\* the remote host before the adapter: "/" alone, with the root path, with
\* the directory d under it, or with a file d under it
InitFs ==
    { Tree({<<"/">>}),
      Tree({<<"/">>, <<"/", "r">>}),
      Tree({<<"/">>, <<"/", "r">>, <<"/", "r", "d">>}),
      Put(Tree({<<"/">>, <<"/", "r">>}), <<"/", "r", "d">>, Left(<<1>>)) }

\* last: the operation, its logical name, the bytes it was given (arg), the
\* truth value (ret) or the bytes (out) it returned, what it raised (err),
\* what the calls it made on the channel raised (chan)
NoOp == [op |-> "init", name |-> << >>, arg |-> << >>, ret |-> FALSE,
         out |-> << >>, err |-> NoErr, chan |-> NoErr, conn |-> NoConn]

\* what prev keeps of an operation: a _save or a delete that returned, with
\* its name and bytes; of any other only that it was another
Brief(l) ==
    IF l.op \in {"save", "delete"} /\ l.err = NoErr
    THEN [op |-> l.op, name |-> l.name, arg |-> l.arg, ok |-> TRUE]
    ELSE [op |-> "other", name |-> << >>, arg |-> << >>, ok |-> FALSE]

\* __init__ has run; nothing has touched the network
Built ==
    /\ sftp = NoSession
    /\ opened = 0
    /\ link = "up"
    /\ handle = NoHandle
    /\ last = NoOp
    /\ prev = Brief(NoOp)
    /\ saved = {}
    /\ pre = DOMAIN fs
    /\ calls = << >>
    /\ listed = NoListing

\* storage runs
Init ==
    /\ cfg \in Configs
    /\ params = << >>
    /\ hostkeys \in BOOLEAN
    /\ fs \in InitFs
    /\ Built

\* connection runs: every way to authenticate, one remote file
InitConn ==
    /\ cfg \in {Plain(FALSE), Plain(TRUE)}
    /\ params \in InitParams
    /\ hostkeys \in BOOLEAN
    /\ fs = Tree({<<"/">>, <<"/", "r">>})
    /\ Built

\* file handle runs
InitFile ==
    /\ cfg = Plain(FALSE)
    /\ params = << >>
    /\ hostkeys = TRUE
    /\ fs = Tree({<<"/">>, <<"/", "r">>})
    /\ Built

\* directory runs: every setting of modes and owners, over a remote host
\* that has nothing, the root path, or the directory d under it, the root
\* path open or closed to the login user
InitDirs ==
    /\ cfg \in DirConfigs
    /\ params = << >>
    /\ hostkeys = TRUE
    /\ fs \in { Tree({<<"/">>}),
                Tree({<<"/">>, <<"/", "r">>}),
                Tree({<<"/">>, <<"/", "r">>, <<"/", "r", "d">>}),
                Put(Tree({<<"/">>, <<"/", "r">>, <<"/", "r", "d">>}), <<"/", "r">>, Sealed) }
    /\ Built

----------------------------------------------------------------------------
(* Operations *)

\* every way a session access can end in this state, over the outcomes of
\* the connect and open_sftp calls it makes
Accesses == { Sftp(env, ok) : env \in Envs, ok \in BOOLEAN }

\* the adapter keeps what the session access did to it, raised or not
Adopt(st) ==
    /\ params' = st.params
    /\ sftp' = st.sftp
    /\ opened' = st.opened

Done(op, name, arg, ret, out, err, st) ==
    /\ last' = [op |-> op, name |-> name, arg |-> arg, ret |-> ret, out |-> out,
                err |-> err, chan |-> IF st.ran \/ st.had_sftp THEN CallErr(st) ELSE NoErr,
                conn |-> ConnOf(st)]
    /\ prev' = Brief(last)

\* an operation that changes nothing on the remote host and lists nothing
Quiet == calls' = << >> /\ listed' = NoListing

\* storage.exists(name)
Exists(n) ==
    \E st \in Accesses :
      LET r  == exists(fs, CallErr(st), n)
      IN  /\ Adopt(st)
          /\ Done("exists", n, << >>, r.ret, << >>, r.err, st)
          /\ Quiet
          /\ UNCHANGED <<cfg, hostkeys, link, fs, handle, saved, pre>>

\* storage._save(name, content) with a File positioned anywhere
Save(n, data, pos) ==
    \E acc \in Accesses :
      LET content == [kind |-> "File", data |-> data, pos |-> pos]
          st == IF Opens(content) THEN acc ELSE Idle
          r  == _save(fs, CallErr(st), n, content)
      IN  /\ Adopt(st)
          /\ fs' = r.fs
          /\ saved' = saved \cup {n}
          /\ calls' = r.calls
          /\ listed' = NoListing
          /\ Done("save", n, data, FALSE, << >>, r.err, st)
          /\ UNCHANGED <<cfg, hostkeys, link, handle, pre>>

\* storage._read(name), read to the end
Read(n) ==
    \E st \in Accesses :
      LET r  == _read(fs, CallErr(st), n)
      IN  /\ Adopt(st)
          /\ Done("read", n, << >>, FALSE, r.ret, r.err, st)
          /\ Quiet
          /\ UNCHANGED <<cfg, hostkeys, link, fs, handle, saved, pre>>

\* storage.delete(name)
Delete(n) ==
    \E st \in Accesses :
      LET r  == delete(fs, CallErr(st), n)
      IN  /\ Adopt(st)
          /\ fs' = r.fs
          /\ Quiet
          /\ Done("delete", n, << >>, FALSE, << >>, r.err, st)
          /\ UNCHANGED <<cfg, hostkeys, link, handle, saved, pre>>

\* storage.listdir(name)
Listdir(n) ==
    \E st \in Accesses, items \in Listings(fs, _remote_path(n)) :
      LET e   == CallErr(st)
          err == IF e # NoErr THEN e
                 ELSE IF ~IsDir(fs, _remote_path(n)) \/ ~Reach(fs, _remote_path(n))
                      THEN "IOError"
                 ELSE NoErr
      IN  /\ Adopt(st)
          /\ listed' = IF err = NoErr THEN listdir(items) ELSE NoListing
          /\ calls' = << >>
          /\ Done("listdir", n, << >>, FALSE, << >>, err, st)
          /\ UNCHANGED <<cfg, hostkeys, link, fs, handle, saved, pre>>

\* keyword arguments another adapter is built with: one that names a class
\* attribute, one that does not
Kwargs == {"file_mode", "port"}

\* SFTPStorage(**{k: value}) for another adapter in the same process:
\* __init__ sets a keyword that names an attribute on the new instance and
\* stores any other in self.params, the dictionary of the class, which this
\* adapter reads too
Construct(k) ==
    /\ params' = IF k \in DOMAIN cfg THEN params
                  ELSE [j \in DOMAIN params \cup {k} |->
                          IF j = k THEN "kwargs" ELSE params[j]]
    /\ Done("construct", <<k>>, << >>, FALSE, << >>, NoErr, Idle)
    /\ Quiet
    /\ UNCHANGED <<cfg, sftp, opened, hostkeys, link, fs, handle, saved, pre>>

\* environment: the established connection dies; from then on a call on the
\* channel raises socket.error (the channel is closed), or SSHException
\* (the server is gone while the reply is awaited)
Drop ==
    /\ HasSftp(sftp) /\ link = "up"
    /\ link' \in LinkStates \ {"up"}
    /\ UNCHANGED <<cfg, params, sftp, opened, hostkeys, fs, handle, last, prev, saved, pre,
                   calls, listed>>

----------------------------------------------------------------------------
(* The file handle: SFTPStorageFile *)

\* 'w' in self._mode
Writable(mode) == \E i \in 1..Len(mode) : mode[i] = "w"

\* BytesIO(data)
BytesIO(data) == [kind |-> "BytesIO", data |-> data, pos |-> 0]

\* _open reaching for self.sftp as the remote operations do
OpenAccess_Eager == Accesses

\* what _open and SFTPStorageFile.__init__ do to the session: they keep the
\* adapter as a reference and leave self.sftp alone
OpenAccess == {Idle}

\* storage._open(name, mode): SFTPStorageFile.__init__
Open(n, mode) ==
    /\ handle = NoHandle
    /\ handle' = [open |-> TRUE, name |-> n, mode |-> mode, is_dirty |-> FALSE,
                  is_read |-> FALSE, file |-> BytesIO(<< >>)]
    /\ \E st \in OpenAccess :
         /\ Adopt(st)
         /\ Done("open", n, << >>, FALSE, << >>, NoErr, st)
    /\ Quiet
    /\ UNCHANGED <<cfg, hostkeys, link, fs, saved, pre>>

\* SFTPStorageFile.write(content)
FWrite(b) ==
    /\ handle # NoHandle
    /\ IF ~Writable(handle.mode)
       THEN /\ Done("write", handle.name, b, FALSE, << >>, "AttributeError", Idle)
            /\ UNCHANGED handle
       ELSE /\ handle' = [handle EXCEPT !.file = BytesIO(b), !.is_dirty = TRUE,
                                        !.is_read = TRUE]
            /\ Done("write", handle.name, b, FALSE, << >>, NoErr, Idle)
    /\ Quiet
    /\ UNCHANGED <<cfg, params, sftp, opened, hostkeys, link, fs, saved, pre>>

\* the stream sftp.open(path, 'rb') returns, over the bytes of the remote file
SFTPFile(data) == [kind |-> "SFTPFile", data |-> data, pos |-> 0]

\* SFTPStorageFile.read(), to the end: a handle not yet read from replaces its
\* buffer by the remote stream, whatever its mode; ret tells that it did
FRead ==
    /\ handle # NoHandle
    /\ \E acc \in Accesses :
         LET st == IF handle.is_read THEN Idle ELSE acc
             r  == IF handle.is_read THEN [ret |-> << >>, err |-> NoErr]
                   ELSE _read(fs, CallErr(st), handle.name)
             file == IF handle.is_read THEN handle.file ELSE SFTPFile(r.ret)
         IN  /\ Adopt(st)
             /\ handle' = IF r.err # NoErr THEN handle
                          ELSE [handle EXCEPT !.file = [file EXCEPT !.pos = Len(file.data)],
                                              !.is_read = TRUE]
             /\ Done("fread", handle.name, << >>, ~handle.is_read,
                     IF r.err = NoErr THEN ReadAll(file) ELSE << >>, r.err, st)
    /\ Quiet
    /\ UNCHANGED <<cfg, hostkeys, link, fs, saved, pre>>

\* SFTPStorageFile.close(): a dirty handle hands self.file.getvalue(), a byte
\* string, to _save; file.close() runs when nothing was raised before it
FClose ==
    /\ handle # NoHandle
    /\ \E acc \in Accesses :
         LET content == [kind |-> "bytes", data |-> handle.file.data, pos |-> 0]
             st == IF handle.is_dirty /\ Opens(content) THEN acc ELSE Idle
             r  == IF handle.is_dirty
                   THEN _save(fs, CallErr(st), handle.name, content)
                   ELSE Only(<< >>, Ok(fs))
         IN  /\ Adopt(st)
             /\ fs' = r.fs
             /\ calls' = r.calls
             /\ listed' = NoListing
             /\ saved' = IF handle.is_dirty THEN saved \cup {handle.name} ELSE saved
             /\ handle' = IF r.err = NoErr THEN NoHandle ELSE handle
             /\ Done("close", handle.name, handle.file.data, handle.is_dirty,
                     << >>, r.err, st)
    /\ UNCHANGED <<cfg, hostkeys, link, pre>>

----------------------------------------------------------------------------
(* Specifications *)

\* the storage operations on every name
Next ==
    \/ \E n \in Names : Exists(n)
    \/ \E n \in Names, data \in Contents : \E pos \in 0..Len(data) : Save(n, data, pos)
    \/ \E n \in Names : Read(n)
    \/ \E n \in Names : Delete(n)
    \/ Drop

Spec == Init /\ [][Next]_vars

\* the storage operations on one name, under every way to authenticate
NextConn ==
    \/ Exists(<<"d">>)
    \/ Save(<<"d">>, <<1>>, 0)
    \/ Read(<<"d">>)
    \/ Delete(<<"d">>)
    \/ \E k \in Kwargs : Construct(k)
    \/ Drop

SpecConn == InitConn /\ [][NextConn]_vars

\* one file handle at a time, beside reads of what it wrote
NextFile ==
    \/ \E n \in Names, mode \in Modes : Open(n, mode)
    \/ \E b \in Contents : FWrite(b)
    \/ FRead
    \/ FClose
    \/ \E n \in Names : Read(n)
    \/ \E n \in Names, data \in Contents : Save(n, data, 0)
    \/ Drop

SpecFile == InitFile /\ [][NextFile]_vars

\* saves and deletes below the directory d, under every setting of modes
\* and owners
NextDirs ==
    \/ \E n \in DeepNames : Save(n, <<1>>, 0)
    \/ \E n \in DeepNames : Delete(n)
    \/ Drop

SpecDirs == InitDirs /\ [][NextDirs]_vars

\* listings of the directory d as saves and deletes fill and empty it
NextList ==
    \/ \E n \in ListNames : Save(n, <<1>>, 0)
    \/ \E n \in ListNames : Delete(n)
    \/ Listdir(<<"d">>)
    \/ Drop

SpecList == InitFile /\ [][NextList]_vars

----------------------------------------------------------------------------
(* Properties of the connection (SpecConn) *)

Auth == "AuthenticationException"

\* operations that reach for the channel before anything else
RemoteOps == {"exists", "save", "read", "delete"}

\* C1: the channel is opened at most once per adapter: once self._sftp is
\* cached no step replaces it or runs _connect again, and a _connect that
\* re-entered itself through the interactive retry leaves one channel.
C1_OneSession ==
    [][ /\ opened' <= 1
        /\ HasSftp(sftp') => sftp' = 1 /\ opened' = 1
        /\ HasSftp(sftp) => sftp' = sftp /\ opened' = opened
        /\ last'.conn.ran => ~last'.conn.had_sftp ]_vars

\* a session access that prompted, retried and cached the one channel
C1_Witness ==
    /\ HasSftp(sftp) /\ opened = 1
    /\ last.conn.ran /\ last.conn.prompts = 1
    /\ last.conn.outcomes = <<Auth, "ok">>

\* the state after an operation whose first connect failed to authenticate
\* with the interactive fallback disabled
AuthRefused ==
    /\ last.conn.ran /\ last.conn.outcomes # << >>
    /\ last.conn.outcomes[1] = Auth
    /\ ~cfg.interactive

\* C2: an authentication failure with the interactive fallback disabled
\* fails the operation with that error and caches no channel, and an
\* operation that finds no channel cached runs _connect again.
C2_AuthFailureNotCached ==
    /\ AuthRefused => last.err = Auth /\ sftp = NoSession
    /\ (last.op \in RemoteOps /\ ~last.conn.had_sftp) => last.conn.ran

C2_Witness ==
    /\ AuthRefused /\ last.err = Auth /\ sftp = NoSession
    /\ last.op = "exists"

\* C3: (the claim, which the code breaks) a connect failure other than an
\* authentication failure reaches the caller as it was raised: nothing is
\* printed in its place and open_sftp() is not tried after it.
C3_OtherFailureFatal ==
    \A i \in 1..Len(last.conn.outcomes) :
        last.conn.outcomes[i] \in {"SocketError", "SSHException"} =>
            /\ last.err = last.conn.outcomes[i]
            /\ last.conn.printed = 0
            /\ last.conn.opens = 0

\* C4: in one session access the password is prompted at most once and
\* connect is called at most twice; an authentication failure with the
\* fallback enabled and no password in params fills in the username if
\* absent, sets the prompted password and retries once; one with a password
\* present (the retry too) or with the fallback disabled is raised.
C4_PromptOnce ==
    LET c == last.conn
        o == last.conn.outcomes
    IN  c.ran =>
          /\ c.prompts <= 1 /\ Len(o) <= 2
          /\ (o # << >> /\ o[1] = Auth /\ cfg.interactive /\ ~c.had_password) =>
                /\ c.prompts = 1 /\ Len(o) = 2
                /\ {"username", "password"} \subseteq DOMAIN params
                /\ params["password"] = "getpass"
                /\ params["username"] = IF c.had_username THEN "settings" ELSE "getuser"
          /\ (o # << >> /\ o[1] = Auth /\ (c.had_password \/ ~cfg.interactive)) =>
                /\ c.prompts = 0 /\ Len(o) = 1
                /\ last.err = Auth /\ sftp = NoSession
          /\ (Len(o) = 2 /\ o[2] = Auth) => last.err = Auth /\ sftp = NoSession

\* the prompted retry failed to authenticate as well
C4_Witness ==
    /\ last.conn.ran /\ last.conn.prompts = 1
    /\ last.conn.outcomes = <<Auth, Auth>>
    /\ ~last.conn.had_username /\ last.err = Auth

\* C5: (the claim, which the code breaks) with the known-hosts file
\* unreadable, _connect still sets the host-key policy and calls connect.
C5_HostKeysNotFatal ==
    (last.conn.ran /\ ~hostkeys) =>
        /\ last.conn.policies >= 1
        /\ last.conn.outcomes # << >>

\* C19: (the claim, which the code breaks) no step changes the adapter's
\* settings or its connection parameters: not a session access, not the
\* construction of another adapter.
C19_ConfigurationFixed ==
    [][ cfg' = cfg /\ params' = params ]_vars

----------------------------------------------------------------------------
(* Properties of the storage operations (Spec) and of the handle (SpecFile) *)

\* the operation before last was a _save of the name of last that returned
JustSaved == prev.op = "save" /\ prev.ok /\ prev.name = last.name

\* C6: a _read of n that follows a _save(n, c) that returned, with no
\* operation in between, yields exactly the bytes c.
C6_RoundTrip ==
    (JustSaved /\ last.op = "read" /\ last.err = NoErr) => last.out = prev.arg

\* a round trip over a file that an earlier save had filled with other bytes
C6_Witness ==
    /\ JustSaved /\ last.op = "read" /\ last.err = NoErr
    /\ last.out = <<2, 1>> /\ last.name = <<"d", "a">>

\* C7: (the claim, which the code breaks) the close of a dirty handle
\* raises nothing and leaves the bytes of the last write in the remote file
\* of the handle's name.
C7_DirtyCloseFlushes ==
    (last.op = "close" /\ last.ret) =>
        /\ last.err = NoErr
        /\ IsFile(fs, _remote_path(last.name))
        /\ fs[_remote_path(last.name)].data = last.arg

\* p is a directory above the remote path of a name _save was called with
AboveSaved(p) ==
    \E m \in saved :
        /\ Len(p) < Len(_remote_path(m))
        /\ SubSeq(_remote_path(m), 1, Len(p)) = p

\* last is an exists that returned, for a name _save was never called with
\* and whose remote path did not exist before the adapter
FreshExists ==
    /\ last.op = "exists" /\ last.err = NoErr
    /\ last.name \notin saved
    /\ _remote_path(last.name) \notin pre

\* C8 as claimed: exists is False for a name never saved and not there before
C8_Original == FreshExists => ~last.ret

\* C8: exists is False for a name never saved, not there before and not a
\* directory above a saved name.
C8_NeverSavedAbsent ==
    (FreshExists /\ ~AboveSaved(_remote_path(last.name))) => ~last.ret

\* exists("d/a") after "d" alone was saved, as a file
C8_Witness ==
    /\ FreshExists /\ ~AboveSaved(_remote_path(last.name))
    /\ last.name = <<"d", "a">> /\ saved = {<<"d">>}
    /\ IsFile(fs, _remote_path(<<"d">>))
    /\ last.chan = NoErr /\ ~last.ret

\* C9: (the claim, which the code breaks) exists(n) returns True right
\* after a _save(n) that returned, and False right after a delete(n) that
\* returned.
C9_SaveDeleteExists ==
    (last.op = "exists" /\ last.err = NoErr /\ prev.name = last.name /\ prev.ok) =>
        /\ prev.op = "save" => last.ret
        /\ prev.op = "delete" => ~last.ret

\* C10: (the claim, which the code breaks) an exists whose stat fails on the
\* established channel for a reason of the transport raises that failure.
C10_TransportFailureRaised ==
    (last.op = "exists" /\ last.conn.had_sftp /\ last.chan # NoErr) =>
        last.err = last.chan

----------------------------------------------------------------------------
(* Properties of directory creation and ownership (SpecDirs), of listdir (SpecList) *)

\* the directories the last operation called mkdir for
Made == { calls[i].path : i \in { j \in 1..Len(calls) : calls[j].call = "mkdir" } }

\* C16: (the claim, which the code breaks) every mkdir(p) is issued when the
\* parent of p is a directory and p does not exist.
C16_MkdirOnlyMissing ==
    \A i \in 1..Len(calls) :
        calls[i].call = "mkdir" => (calls[i].parent /\ ~calls[i].there)

\* the calls of the last operation on the remote path p, in their order
CallsOn(p) == SelectSeq(calls, LAMBDA c : c.path = p)

\* C17: (the claim, which the code breaks) with an owner or a group
\* configured, be it 0, a _save that returned has called chown on the file
\* once, as its last call on it and so after the chmod, with the configured
\* value on a configured side and the value the file had on the other, and
\* the file has that owner and group.
C17_OwnershipApplied ==
    (last.op = "save" /\ last.err = NoErr /\ (cfg.uid # None \/ cfg.gid # None)) =>
        LET path == _remote_path(last.name)
            on   == CallsOn(path)
            c    == on[Len(on)]
        IN  /\ c.call = "chown"
            /\ Cardinality({ i \in 1..Len(on) : on[i].call = "chown" }) = 1
            /\ cfg.file_mode # None => on[Len(on) - 1].call = "chmod"
            /\ c.uid = IF cfg.uid # None THEN cfg.uid ELSE c.st_uid
            /\ c.gid = IF cfg.gid # None THEN cfg.gid ELSE c.st_gid
            /\ fs[path].uid = c.uid /\ fs[path].gid = c.gid

\* C20: (the claim, which the code breaks) the recursion of _mkdir ends by
\* itself whatever the existence checks answer: a _save never ends in the
\* interpreter's recursion error, and it calls mkdir at most once for each
\* directory above the file.
C20_MkdirTerminates ==
    last.op = "save" =>
        /\ last.err # "RecursionError"
        /\ \A i, j \in 1..Len(calls) :
              (calls[i].call = "mkdir" /\ calls[j].call = "mkdir" /\ calls[i].path = calls[j].path)
                  => i = j
        /\ Made \subseteq Above(_remote_path(last.name))

\* C11: (the claim, which the code breaks) after a _save that returned every
\* directory above the file exists, each directory the _save made has the
\* configured directory mode, owner and group, and the directories that
\* were there before did not make it fail: a _save whose calls reached the
\* host fails only where a directory is missing above the file or the file's
\* path is a directory.
C11_AncestorsDressed ==
    LET path == _remote_path(last.name)
    IN  /\ (last.op = "save" /\ last.err = NoErr) =>
              /\ \A p \in Above(path) : IsDir(fs, p)
              /\ \A p \in Made :
                    /\ cfg.dir_mode # None => fs[p].mode = cfg.dir_mode
                    /\ cfg.uid # None => fs[p].uid = cfg.uid
                    /\ cfg.gid # None => fs[p].gid = cfg.gid
        /\ (last.op = "save" /\ last.err # NoErr /\ last.chan = NoErr) =>
              \/ \E p \in Above(path) : ~IsDir(fs, p)
              \/ IsDir(fs, path)
              \/ ~Reach(fs, path)

\* the elements of a sequence
Range(s) == { s[i] : i \in 1..Len(s) }

\* where the entry called name stands in the listing
Place(items, name) == CHOOSE k \in 1..Len(items) : items[k].filename = name

\* the names in s stand in the order the listing has them
InListingOrder(items, s) ==
    \A i, j \in 1..Len(s) : i < j => Place(items, s[i]) < Place(items, s[j])

\* last is a listdir that returned
Listed == last.op = "listdir" /\ last.err = NoErr

\* C15 as claimed: the first sequence holds the entries that are directories
\* on the remote host, the second all others
C15_Original ==
    Listed =>
        \A k \in 1..Len(listed.items) :
            LET name == listed.items[k].filename
            IN  IF IsDir(fs, Append(_remote_path(last.name), name))
                THEN name \in Range(listed.dirs) /\ name \notin Range(listed.files)
                ELSE name \in Range(listed.files) /\ name \notin Range(listed.dirs)

\* C15: listdir returns every entry of the listing once: in the first
\* sequence if its attributes carry a mode whose type is directory, in the
\* second otherwise, an entry without a mode too; the entries are those of the
\* remote directory and each sequence keeps the order of the listing.
C15_ListdirPartition ==
    Listed =>
        /\ Len(listed.dirs) + Len(listed.files) = Len(listed.items)
        /\ Range(listed.dirs) \cap Range(listed.files) = {}
        /\ { Append(_remote_path(last.name), listed.items[k].filename) :
                k \in 1..Len(listed.items) } = Children(fs, _remote_path(last.name))
        /\ \A k \in 1..Len(listed.items) :
              LET it == listed.items[k]
              IN  IF it.st_mode # None /\ IsDir(fs, Append(_remote_path(last.name), it.filename))
                  THEN it.filename \in Range(listed.dirs)
                  ELSE it.filename \in Range(listed.files)
        /\ InListingOrder(listed.items, listed.dirs)
        /\ InListingOrder(listed.items, listed.files)

\* d/a, d/b and d/sub/a were saved; the listing of d has b before sub before
\* a, all with modes: sub is in the first sequence, b and a in the second
C15_Witness ==
    /\ Listed /\ {<<"d", "a">>, <<"d", "b">>, <<"d", "sub", "a">>} \subseteq saved
    /\ Filenames(listed.items) = <<"b", "sub", "a">>
    /\ \A k \in 1..3 : listed.items[k].st_mode # None
    /\ listed.dirs = <<"sub">> /\ listed.files = <<"b", "a">>

----------------------------------------------------------------------------
(* Properties of the file handle (SpecFile) *)

\* the last operation wrote a remote file
WroteRemote == \E i \in 1..Len(calls) : calls[i].call = "write"

\* C12: (the claim, which the code breaks) a close writes a remote file if
\* and only if the handle is dirty, and a handle is dirty only after a write
\* it accepted: it is in a mode write accepts and holds the written bytes.
C12_RemoteWriteIffDirty ==
    /\ last.op = "close" => (WroteRemote <=> last.ret)
    /\ (handle # NoHandle /\ handle.is_dirty) =>
          /\ Writable(handle.mode) /\ handle.is_read
          /\ handle.file.kind = "BytesIO" /\ handle.file.data \in Contents

\* a mode that opens a file for writing: 'w', 'a', 'x', or any mode with '+'
OpenedWritable(mode) == \E i \in 1..Len(mode) : mode[i] \in {"w", "a", "x", "+"}

\* C13: (the claim, which the code breaks) a write raises AttributeError
\* exactly on a handle whose mode is not writable, and then leaves the buffer
\* and the two flags as they were; a write that returns leaves the buffer
\* holding the bytes it was given, from the start, and both flags set.
C13_WriteRejectedIffReadOnly ==
    [][ last'.op = "write" =>
          /\ (last'.err = "AttributeError") <=> ~OpenedWritable(handle'.mode)
          /\ last'.err # NoErr => handle' = handle
          /\ last'.err = NoErr =>
                /\ handle'.file = BytesIO(last'.arg)
                /\ handle'.is_dirty /\ handle'.is_read ]_vars

\* the operations that reach for self.sftp: the storage operations, the read
\* of a handle, the close of a handle
NetOps == RemoteOps \cup {"listdir", "fread", "close"}

\* C14: the adapter as built, before any operation, has no session; a step
\* that runs _connect, caches a channel or opens one is a storage
\* operation, the read of a handle not read from before or the close of a
\* dirty handle; _open and write leave the session as it was.
C14_LazySession ==
    [][ /\ last.op = "init" => (sftp = NoSession /\ opened = 0 /\ ~last.conn.ran)
        /\ (sftp' # sftp \/ opened' # opened \/ last'.conn.ran) =>
              /\ last'.op \in NetOps
              /\ last'.op = "fread" => ~handle.is_read
              /\ last'.op = "close" => last'.ret
        /\ last'.op \in {"open", "write"} =>
              (sftp' = sftp /\ opened' = opened /\ params' = params) ]_vars

\* a handle was opened and written to; no channel is cached or was opened
C14_Witness ==
    /\ last.op = "write" /\ last.err = NoErr /\ handle.is_dirty
    /\ sftp = NoSession /\ opened = 0 /\ saved = {}

\* a mode that opens a file for reading: 'r', or any mode with '+'
OpenedReadable(mode) == \E i \in 1..Len(mode) : mode[i] \in {"r", "+"}

\* C18: (the claim, which the code breaks) a read of a handle calls _read
\* only if the handle was not read from or written to before and its mode
\* is one for reading; once it has, or once the handle was written to, no
\* later read calls _read or reaches for the session, and a read after a
\* write returns the bytes left in the written buffer.
C18_FetchOnlyForReading ==
    [][ (last'.op = "fread" /\ link' = link) =>
          /\ last'.ret => (~handle.is_read /\ OpenedReadable(handle.mode))
          /\ (last'.ret /\ last'.err = NoErr) => handle'.is_read
          /\ handle.is_read =>
                /\ ~last'.ret /\ ~last'.conn.ran
                /\ sftp' = sftp /\ handle'.is_read
                /\ last'.out = ReadAll(handle.file)
                /\ handle.is_dirty => handle.file.kind = "BytesIO" ]_vars

=============================================================================
